---- MODULE Spec2Model ----
(***************************************************************************)
(* Model of the expression core of `tilted`: the numeric value `Number`    *)
(* (src/src/ast.rs), the AST nodes and their evaluation (src/src/ast.rs)   *)
(* and the recursive-descent `Parser` (src/src/parser.rs).                 *)
(*                                                                         *)
(* The parser is modelled as a machine with an explicit call stack: one    *)
(* action per straight-line piece of a parse_* function, from its entry    *)
(* or from the return of a callee up to the next call or return.           *)
(*                                                                         *)
(* Specifications.  Spec: the parser over every short token stream.        *)
(* SpecFold: the parser over longer streams without parentheses.           *)
(* SpecNum: one operation of Number.  SpecTree: to_tree of a built tree.   *)
(*                                                                         *)
(* Scaling.  i128 is modelled by a two's-complement integer of IntBits     *)
(* bits, the u32 of `m as u32` by ExpBits bits (ExpBits < IntBits - 1, as  *)
(* 32 < 127), and f64 by exact rationals n/d that saturate to an infinity  *)
(* beyond FltLimit and flush to zero below 1/FltLimit, with one NaN and    *)
(* two infinities.  The sign of a float zero is not modelled.              *)
(***************************************************************************)
EXTENDS Integers, Sequences, FiniteSets, TLC

\* ---------------------------------------------------------------------------
\* Bounds of the model.
\* ---------------------------------------------------------------------------
\* Longest token stream handed to a Parser.
MaxLen == 4
\* Width of the modelled i128.
IntBits == 6
\* Width of the modelled u32 exponent of i128::pow.
ExpBits == 3
\* Largest magnitude of a finite modelled f64 is 2^FltBits.
FltBits == 10
\* Most nodes of a tree handed to to_tree.
MaxNodes == 6
\* Longest token stream without parentheses handed to a Parser.
MaxFoldLen == 5

RECURSIVE TwoPow(_)
TwoPow(k) == IF k = 0 THEN 1 ELSE 2 * TwoPow(k - 1)

IntMin == -TwoPow(IntBits - 1)
IntMax == TwoPow(IntBits - 1) - 1
IntModulus == TwoPow(IntBits)
ExpModulus == TwoPow(ExpBits)
FltLimit == TwoPow(FltBits)

Abs(x) == IF x < 0 THEN -x ELSE x
Sign(x) == IF x < 0 THEN -1 ELSE IF x = 0 THEN 0 ELSE 1

RECURSIVE Gcd(_, _)
Gcd(a, b) == IF b = 0 THEN a ELSE Gcd(b, a % b)

\* ---------------------------------------------------------------------------
\* Number (ast.rs).  One record shape for both variants; t = "Panic" stands
\* for a call that unwound with a panic instead of returning a Number.
\* ---------------------------------------------------------------------------
NumInt(v) == [t |-> "Int", c |-> "fin", n |-> v, d |-> 1]
NaN == [t |-> "Flt", c |-> "nan", n |-> 0, d |-> 1]
PosInf == [t |-> "Flt", c |-> "inf", n |-> 1, d |-> 1]
NegInf == [t |-> "Flt", c |-> "inf", n |-> -1, d |-> 1]
Panic == [t |-> "Panic", c |-> "fin", n |-> 0, d |-> 1]

\* The f64 nearest to the rational n/d (d # 0): reduced, saturated, flushed.
NumFlt(n, d) ==
    LET s == Sign(d)
        g == Gcd(Abs(n), Abs(d))
        nn == (s * n) \div g
        dd == Abs(d) \div g
    IN  IF n = 0 THEN [t |-> "Flt", c |-> "fin", n |-> 0, d |-> 1]
        ELSE IF Abs(nn) > FltLimit * dd THEN (IF nn > 0 THEN PosInf ELSE NegInf)
        ELSE IF Abs(nn) * FltLimit < dd THEN [t |-> "Flt", c |-> "fin", n |-> 0, d |-> 1]
        ELSE [t |-> "Flt", c |-> "fin", n |-> nn, d |-> dd]

IsPanic(x) == x.t = "Panic"
IsInt(x) == x.t = "Int"
IsFlt(x) == x.t = "Flt"
IsNaN(x) == x.t = "Flt" /\ x.c = "nan"
IsInf(x) == x.t = "Flt" /\ x.c = "inf"
IsFinite(x) == x.t \in {"Int", "Flt"} /\ x.c = "fin"

\* `n as f64` / the f64 carried by a Flt.
AsF64(x) == IF x.t = "Int" THEN NumFlt(x.n, 1) ELSE x

\* f64 arithmetic (IEEE 754 on the modelled values).
F64Neg(a) ==
    IF a.c = "nan" THEN NaN
    ELSE IF a.c = "inf" THEN (IF a.n > 0 THEN NegInf ELSE PosInf)
    ELSE NumFlt(-a.n, a.d)

F64Add(a, b) ==
    IF a.c = "nan" \/ b.c = "nan" THEN NaN
    ELSE IF a.c = "inf" /\ b.c = "inf" THEN (IF a.n = b.n THEN a ELSE NaN)
    ELSE IF a.c = "inf" THEN a
    ELSE IF b.c = "inf" THEN b
    ELSE NumFlt(a.n * b.d + b.n * a.d, a.d * b.d)

F64Sub(a, b) == F64Add(a, F64Neg(b))

F64Mul(a, b) ==
    IF a.c = "nan" \/ b.c = "nan" THEN NaN
    ELSE IF a.c = "inf" \/ b.c = "inf"
         THEN (IF a.n = 0 \/ b.n = 0 THEN NaN
               ELSE IF Sign(a.n) = Sign(b.n) THEN PosInf ELSE NegInf)
    ELSE NumFlt(a.n * b.n, a.d * b.d)

F64Div(a, b) ==
    IF a.c = "nan" \/ b.c = "nan" THEN NaN
    ELSE IF a.c = "inf" /\ b.c = "inf" THEN NaN
    ELSE IF a.c = "inf" THEN (IF Sign(a.n) * (IF b.n < 0 THEN -1 ELSE 1) > 0 THEN PosInf ELSE NegInf)
    ELSE IF b.c = "inf" THEN NumFlt(0, 1)
    ELSE IF b.n = 0 THEN (IF a.n = 0 THEN NaN ELSE IF a.n > 0 THEN PosInf ELSE NegInf)
    ELSE NumFlt(a.n * b.d, a.d * b.n)

F64Abs(a) ==
    IF a.c = "nan" THEN NaN
    ELSE IF a.c = "inf" THEN PosInf
    ELSE NumFlt(Abs(a.n), a.d)

\* a < b on f64: false whenever an operand is NaN.
F64Lt(a, b) ==
    IF a.c = "nan" \/ b.c = "nan" THEN FALSE
    ELSE IF a.c = "inf" THEN a.n < 0 /\ ~(b.c = "inf" /\ b.n < 0)
    ELSE IF b.c = "inf" THEN b.n > 0
    ELSE a.n * b.d < b.n * a.d

\* x * x * ... * x, k factors, on f64.
RECURSIVE F64PowNat(_, _)
F64PowNat(x, k) == IF k = 0 THEN NumFlt(1, 1) ELSE F64Mul(x, F64PowNat(x, k - 1))

\* f64::powf for an exponent that holds an integer or an infinity or NaN (the
\* only exponents the model draws); powf(x, 0) = 1 and powf(1, y) = 1 for
\* every x and y, NaN included.
F64Powf(x, y) ==
    IF y.c = "fin" /\ y.n = 0 THEN NumFlt(1, 1)
    ELSE IF x.c = "fin" /\ x.n = 1 /\ x.d = 1 THEN NumFlt(1, 1)
    ELSE IF x.c = "nan" \/ y.c = "nan" THEN NaN
    ELSE IF y.c = "inf"
         THEN (IF x.c = "fin" /\ Abs(x.n) = x.d THEN NumFlt(1, 1)
               ELSE IF (x.c = "inf" \/ Abs(x.n) > x.d) = (y.n > 0) THEN PosInf
               ELSE NumFlt(0, 1))
    ELSE IF y.d # 1 THEN NaN   \* a fractional exponent: never drawn, not modelled
    ELSE IF y.n > 0 THEN F64PowNat(x, y.n)
    ELSE F64Div(NumFlt(1, 1), F64PowNat(x, -y.n))

\* ---------------------------------------------------------------------------
\* i128 arithmetic.  overflow_checks = TRUE is a build whose arithmetic
\* panics on overflow (debug profile), FALSE one where it wraps (release).
\* ---------------------------------------------------------------------------
InRange(v) == IntMin <= v /\ v <= IntMax
Wrap(v) == ((v - IntMin) % IntModulus) + IntMin

\* The result of an i128 operation whose mathematical value is v.
Checked(v, oc) == IF InRange(v) THEN NumInt(v) ELSE IF oc THEN Panic ELSE NumInt(Wrap(v))

\* i128 `/`: truncates toward zero.
TruncDiv(a, b) == Sign(a) * Sign(b) * (Abs(a) \div Abs(b))

\* i128 `/`: a zero divisor and MIN / -1 panic in every build.
I128Div(a, b) ==
    IF b = 0 THEN Panic
    ELSE IF a = IntMin /\ b = -1 THEN Panic
    ELSE NumInt(TruncDiv(a, b))

\* i128::pow(n, e): e factors of n; [v |-> wrapped product, o |-> overflowed].
RECURSIVE I128PowAcc(_, _)
I128PowAcc(n, e) ==
    IF e = 0 THEN [v |-> 1, o |-> FALSE]
    ELSE LET r == I128PowAcc(n, e - 1)
         IN  [v |-> Wrap(r.v * n), o |-> r.o \/ ~InRange(r.v * n)]

I128Pow(n, e, oc) ==
    LET r == I128PowAcc(n, e)
    IN  IF r.o /\ oc THEN Panic ELSE NumInt(r.v)

\* `m as u32` for m >= 0: the low bits of m.
AsU32(m) == m % ExpModulus

\* ---------------------------------------------------------------------------
\* impl PartialEq / Add / Sub / Mul / Div / Neg for Number.
\* ---------------------------------------------------------------------------
\* f64::EPSILON * 1e3, scaled to the modelled floats: a small positive float.
Epsilon == [t |-> "Flt", c |-> "fin", n |-> 1, d |-> FltLimit]

\* Number_eq whose float comparison is the wrong way round: > for <.
Number_eq_Reversed(x, y) ==
    IF IsInt(x) /\ IsInt(y) THEN x.n = y.n
    ELSE F64Lt(Epsilon, F64Abs(F64Sub(AsF64(x), AsF64(y))))

Number_eq(x, y) ==
    IF IsInt(x) /\ IsInt(y) THEN x.n = y.n
    ELSE F64Lt(F64Abs(F64Sub(AsF64(x), AsF64(y))), Epsilon)

Number_add(x, y, oc) ==
    IF IsPanic(x) \/ IsPanic(y) THEN Panic
    ELSE IF IsInt(x) /\ IsInt(y) THEN Checked(x.n + y.n, oc)
    ELSE F64Add(AsF64(x), AsF64(y))

Number_sub(x, y, oc) ==
    IF IsPanic(x) \/ IsPanic(y) THEN Panic
    ELSE IF IsInt(x) /\ IsInt(y) THEN Checked(x.n - y.n, oc)
    ELSE F64Sub(AsF64(x), AsF64(y))

Number_mul(x, y, oc) ==
    IF IsPanic(x) \/ IsPanic(y) THEN Panic
    ELSE IF IsInt(x) /\ IsInt(y) THEN Checked(x.n * y.n, oc)
    ELSE F64Mul(AsF64(x), AsF64(y))

\* Number_div whose zero test looks at a float divisor only.
Number_div_FltGuardOnly(x, y, oc) ==
    IF IsPanic(x) \/ IsPanic(y) THEN Panic
    ELSE IF IsFlt(y) /\ Number_eq(y, NumFlt(0, 1)) THEN NaN
    ELSE IF IsInt(x) /\ IsInt(y) THEN I128Div(x.n, y.n)
    ELSE F64Div(AsF64(x), AsF64(y))

Number_div(x, y, oc) ==
    IF IsPanic(x) \/ IsPanic(y) THEN Panic
    ELSE IF Number_eq(y, NumInt(0)) \/ Number_eq(y, NumFlt(0, 1)) THEN NaN
    ELSE IF IsInt(x) /\ IsInt(y) THEN I128Div(x.n, y.n)
    ELSE F64Div(AsF64(x), AsF64(y))

Number_neg(x, oc) ==
    IF IsPanic(x) THEN Panic
    ELSE IF IsInt(x) THEN Checked(-x.n, oc)
    ELSE F64Neg(x)

\* BinaryAction::evaluate, the Pow arm.
Number_pow(x, y, oc) ==
    IF IsPanic(x) \/ IsPanic(y) THEN Panic
    ELSE IF IsInt(x) /\ IsInt(y)
         THEN (IF y.n >= 0 THEN I128Pow(x.n, AsU32(y.n), oc)
               ELSE F64Powf(AsF64(x), AsF64(y)))
    ELSE F64Powf(AsF64(x), AsF64(y))

BinaryAction_evaluate(actor, left, right, oc) ==
    CASE actor = "Add" -> Number_add(left, right, oc)
      [] actor = "Sub" -> Number_sub(left, right, oc)
      [] actor = "Mul" -> Number_mul(left, right, oc)
      [] actor = "Div" -> Number_div(left, right, oc)
      [] actor = "Pow" -> Number_pow(left, right, oc)

UnaryAction_evaluate(actor, operand, oc) ==
    CASE actor = "Neg" -> Number_neg(operand, oc)
      [] actor = "Iden" -> operand

\* ---------------------------------------------------------------------------
\* AST nodes (ast.rs) and Node::evaluate.
\* ---------------------------------------------------------------------------
NoNode == [node |-> "None"]
PlainNode(num) == [node |-> "Plain", num |-> num]
UnaryNode(actor, operand) == [node |-> "Unary", actor |-> actor, operand |-> operand]
BinaryNode(left, actor, right) ==
    [node |-> "Binary", left |-> left, actor |-> actor, right |-> right]

RECURSIVE Node_evaluate(_, _)
Node_evaluate(nd, oc) ==
    CASE nd.node = "Plain" -> nd.num
      [] nd.node = "Unary" ->
            UnaryAction_evaluate(nd.actor, Node_evaluate(nd.operand, oc), oc)
      [] nd.node = "Binary" ->
            BinaryAction_evaluate(nd.actor, Node_evaluate(nd.left, oc),
                                  Node_evaluate(nd.right, oc), oc)

\* ---------------------------------------------------------------------------
\* Tokens (the Lexer's items, as the parser reads them).
\* ---------------------------------------------------------------------------
NoToken == [kind |-> "None", op |-> "none", v |-> 0, start_index |-> -1]
Lit(kind, v) == [kind |-> kind, op |-> "none", v |-> v]
Op(op) == [kind |-> "Op", op |-> op, v |-> 0]

Operators == {"Plus", "Minus", "Star", "Slash", "Caret"}

\* What a token can be, without its span.
TokenKinds ==
    {Lit("Int", 0), Lit("Int", 2), Lit("Flt", 2)}
        \cup {Op(o) : o \in Operators}
        \cup {Lit("LeftParen", 0), Lit("RightParen", 0)}

\* The i-th token of a source text starts at offset i - 1.
Token(k, i) == [kind |-> k.kind, op |-> k.op, v |-> k.v, start_index |-> i - 1]

\* ---------------------------------------------------------------------------
\* State.
\* ---------------------------------------------------------------------------
VARIABLES
    tokens,           \* the items of the Lexer, in order
    pos,              \* how many of them the Peekable has handed out by next()
    stack,            \* the parse_* calls in progress, innermost last
    ret,              \* the Result the last finished parse_* call returned
    status,           \* "new", "parsing", then "Ok", "Err" or "panic"
    result,           \* what Parser::parse returned
    value,            \* what evaluate() of the parsed tree returned
    overflow_checks,  \* whether this build panics on integer overflow
    prev,             \* result and value of the previous parse of the same tokens
    num_op, num_left, num_right, num_out,  \* one Number operation and its result
    tree,             \* a tree built with the node constructors
    lines             \* what to_tree() of that tree returned

vars == <<tokens, pos, stack, ret, status, result, value, overflow_checks, prev,
          num_op, num_left, num_right, num_out, tree, lines>>
parserVars == <<tokens, pos, stack, ret, status, result, value, prev>>
numVars == <<num_op, num_left, num_right, num_out>>
treeVars == <<tree, lines>>

NoRet == [kind |-> "none", node |-> NoNode, err |-> "none", tok |-> NoToken]
Ok(nd) == [kind |-> "Ok", node |-> nd, err |-> "none", tok |-> NoToken]
\* ParseError::UnexpectedEOF
UnexpectedEOF == [kind |-> "Err", node |-> NoNode, err |-> "UnexpectedEOF", tok |-> NoToken]
\* ParseError::InvalidUnaryOperator(token)
InvalidUnaryOperator(tok) ==
    [kind |-> "Err", node |-> NoNode, err |-> "InvalidUnaryOperator", tok |-> tok]
\* ParseError::MismatchRightParen(token.span.start_index): tok keeps the offset only.
MismatchRightParen(start) ==
    [kind |-> "Err", node |-> NoNode, err |-> "MismatchRightParen",
     tok |-> [NoToken EXCEPT !.start_index = start]]

NoValue == [t |-> "None", c |-> "fin", n |-> 0, d |-> 1]
NoPrev == [result |-> NoRet, value |-> NoValue]

Frame(fn) == [fn |-> fn, pc |-> "enter", node |-> NoNode, actor |-> "none"]

\* Peekable::peek: the next item, not handed out.
Peek == IF pos < Len(tokens) THEN tokens[pos + 1] ELSE NoToken

Top == stack[Len(stack)]
Running(fn, pc) ==
    /\ status = "parsing"
    /\ Len(stack) > 0
    /\ Top.fn = fn
    /\ Top.pc = pc
Returned(fn, pc) == Running(fn, pc) /\ ret.kind # "none"

\* The running call returns r having handed out tokens up to p; the outermost
\* parse_expr returns to Parser::parse, which returns r to the caller.
ReturnAt(r, p) ==
    /\ pos' = p
    /\ stack' = SubSeq(stack, 1, Len(stack) - 1)
    /\ ret' = r
    /\ status' = IF Len(stack) = 1 THEN r.kind ELSE status
    /\ result' = IF Len(stack) = 1 THEN r ELSE result
    /\ UNCHANGED <<tokens, value, overflow_checks, prev, numVars, treeVars>>

Return(r) == ReturnAt(r, pos)

\* The running call remembers (pc, node, actor) and calls fn having handed out
\* tokens up to p.
CallAt(pc, nd, actor, fn, p) ==
    /\ pos' = p
    /\ stack' = Append([stack EXCEPT ![Len(stack)] =
                            [fn |-> Top.fn, pc |-> pc, node |-> nd, actor |-> actor]],
                       Frame(fn))
    /\ ret' = NoRet
    /\ UNCHANGED <<tokens, status, result, value, overflow_checks, prev, numVars, treeVars>>

\* The running call is replaced by fn (`return self.fn()`).
TailCall(fn) ==
    /\ stack' = [stack EXCEPT ![Len(stack)] = Frame(fn)]
    /\ ret' = NoRet
    /\ UNCHANGED <<tokens, pos, status, result, value, overflow_checks, prev, numVars, treeVars>>

\* unreachable!()
PanicNow(p) ==
    /\ pos' = p
    /\ status' = "panic"
    /\ UNCHANGED <<tokens, stack, ret, result, value, overflow_checks, prev, numVars, treeVars>>

\* ---------------------------------------------------------------------------
\* Parser (parser.rs).
\* ---------------------------------------------------------------------------
\* Parser::new(lexer) over any token stream of at most MaxLen tokens.
Init ==
    /\ \E n \in 0..MaxLen : \E ks \in [1..n -> TokenKinds] :
            tokens = [i \in 1..n |-> Token(ks[i], i)]
    /\ pos = 0
    /\ stack = <<>>
    /\ ret = NoRet
    /\ status = "new"
    /\ result = NoRet
    /\ value = NoValue
    /\ overflow_checks \in BOOLEAN
    /\ prev = NoPrev
    /\ num_op = "none"
    /\ num_left = NoValue
    /\ num_right = NoValue
    /\ num_out = NoValue
    /\ tree = NoNode
    /\ lines = <<>>

\* Parser::parse
Parse ==
    /\ status = "new"
    /\ status' = "parsing"
    /\ stack' = <<Frame("parse_expr")>>
    /\ UNCHANGED <<tokens, pos, ret, result, value, overflow_checks, prev, numVars, treeVars>>

\* parse_expr: Operator -> BinaryAction, "none" for `_ => return Ok(term)`.
ExprActor(op) ==
    CASE op = "Plus" -> "Add"
      [] op = "Minus" -> "Sub"
      [] OTHER -> "none"

\* parse_term: Operator -> BinaryAction, "none" for `_ => return Ok(factor)`.
TermActor(op) ==
    CASE op = "Star" -> "Mul"
      [] op = "Slash" -> "Div"
      [] OTHER -> "none"

\* FactorActor with the two prefix operators exchanged.
FactorActor_Swapped(op) ==
    CASE op = "Plus" -> "Neg"
      [] op = "Minus" -> "Iden"
      [] OTHER -> "none"

\* parse_factor: Operator -> UnaryAction, "none" for `_ => return self.parse_atomic()`.
FactorActor(op) ==
    CASE op = "Plus" -> "Iden"
      [] op = "Minus" -> "Neg"
      [] OTHER -> "none"

\* parse_expr, `let mut term = self.parse_term()?`: the call.
ParseExpr_Enter ==
    /\ Running("parse_expr", "enter")
    /\ CallAt("first", NoNode, "none", "parse_term", pos)

\* ParseExpr_Loop that parses the rest of the expression, not one term, as
\* the right operand.
ParseExpr_Loop_RightRecursive(term) ==
    LET tok == Peek
        actor == ExprActor(tok.op)
    IN  IF tok.kind # "Op" THEN Return(Ok(term))
        ELSE IF actor = "none" THEN Return(Ok(term))
        ELSE CallAt("next", term, actor, "parse_expr", pos + 1)

\* parse_expr, one turn of the loop with `term` accumulated.
ParseExpr_Loop(term) ==
    LET tok == Peek
        actor == ExprActor(tok.op)
    IN  IF tok.kind # "Op" THEN Return(Ok(term))
        ELSE IF actor = "none" THEN Return(Ok(term))
        ELSE CallAt("next", term, actor, "parse_term", pos + 1)

\* parse_expr, the first parse_term has returned.
ParseExpr_First ==
    /\ Returned("parse_expr", "first")
    /\ IF ret.kind = "Err" THEN Return(ret) ELSE ParseExpr_Loop(ret.node)

\* parse_expr, the parse_term after an operator has returned.
ParseExpr_Next ==
    /\ Returned("parse_expr", "next")
    /\ IF ret.kind = "Err" THEN Return(ret)
       ELSE ParseExpr_Loop(BinaryNode(Top.node, Top.actor, ret.node))

\* parse_term, `let mut factor = self.parse_factor()?`: the call.
ParseTerm_Enter ==
    /\ Running("parse_term", "enter")
    /\ CallAt("first", NoNode, "none", "parse_factor", pos)

\* parse_term, one turn of the loop with `factor` accumulated.
ParseTerm_Loop(factor) ==
    LET tok == Peek
        actor == TermActor(tok.op)
    IN  IF tok.kind # "Op" THEN Return(Ok(factor))
        ELSE IF actor = "none" THEN Return(Ok(factor))
        ELSE CallAt("next", factor, actor, "parse_factor", pos + 1)

\* parse_term, the first parse_factor has returned.
ParseTerm_First ==
    /\ Returned("parse_term", "first")
    /\ IF ret.kind = "Err" THEN Return(ret) ELSE ParseTerm_Loop(ret.node)

\* parse_term, the parse_factor after an operator has returned.
ParseTerm_Next ==
    /\ Returned("parse_term", "next")
    /\ IF ret.kind = "Err" THEN Return(ret)
       ELSE ParseTerm_Loop(BinaryNode(Top.node, Top.actor, ret.node))

\* parse_factor, up to its call of parse_atomic.
ParseFactor_Enter ==
    /\ Running("parse_factor", "enter")
    /\ LET next_token == Peek
           actor == FactorActor(next_token.op)
       IN  IF next_token.kind = "None" THEN Return(UnexpectedEOF)
           ELSE IF next_token.kind = "Op" /\ actor # "none"
                THEN CallAt("operand", NoNode, actor, "parse_atomic", pos + 1)
           ELSE TailCall("parse_atomic")

\* parse_factor, the parse_atomic of the operand has returned.
ParseFactor_Operand ==
    /\ Returned("parse_factor", "operand")
    /\ IF ret.kind = "Err" THEN Return(ret)
       ELSE Return(Ok(UnaryNode(Top.actor, ret.node)))

\* ParseAtomic_Enter whose operator arm has fallen into the catch-all arm.
ParseAtomic_Enter_OpInCatchAll ==
    /\ Running("parse_atomic", "enter")
    /\ LET next_token == Peek
       IN  CASE next_token.kind = "None" -> Return(UnexpectedEOF)
             [] next_token.kind = "Flt" ->
                    ReturnAt(Ok(PlainNode(NumFlt(next_token.v, 1))), pos + 1)
             [] next_token.kind = "Int" ->
                    ReturnAt(Ok(PlainNode(NumInt(next_token.v))), pos + 1)
             [] next_token.kind = "LeftParen" ->
                    CallAt("paren", NoNode, "none", "parse_paren_expr", pos + 1)
             [] OTHER ->
                    ReturnAt(MismatchRightParen(next_token.start_index), pos + 1)

\* parse_atomic, up to its return or its call of parse_paren_expr.
ParseAtomic_Enter ==
    /\ Running("parse_atomic", "enter")
    /\ LET next_token == Peek
       IN  CASE next_token.kind = "None" -> Return(UnexpectedEOF)
             [] next_token.kind = "Flt" ->
                    ReturnAt(Ok(PlainNode(NumFlt(next_token.v, 1))), pos + 1)
             [] next_token.kind = "Int" ->
                    ReturnAt(Ok(PlainNode(NumInt(next_token.v))), pos + 1)
             [] next_token.kind = "LeftParen" ->
                    CallAt("paren", NoNode, "none", "parse_paren_expr", pos + 1)
             [] next_token.kind = "Op" ->
                    ReturnAt(InvalidUnaryOperator(next_token), pos + 1)
             [] OTHER ->
                    ReturnAt(MismatchRightParen(next_token.start_index), pos + 1)

\* parse_atomic, parse_paren_expr has returned.
ParseAtomic_Paren ==
    /\ Returned("parse_atomic", "paren")
    /\ Return(ret)

\* parse_paren_expr, up to its call of parse_expr.
ParseParenExpr_Enter ==
    /\ Running("parse_paren_expr", "enter")
    /\ LET token == Peek
       IN  IF token.kind = "None" THEN Return(UnexpectedEOF)
           ELSE IF token.kind # "LeftParen" THEN PanicNow(pos + 1)
           ELSE CallAt("inner", NoNode, "none", "parse_expr", pos + 1)

\* parse_paren_expr, parse_expr has returned.
ParseParenExpr_Inner ==
    /\ Returned("parse_paren_expr", "inner")
    /\ LET token == Peek
       IN  IF ret.kind = "Err" THEN Return(ret)
           ELSE IF token.kind = "None" THEN Return(UnexpectedEOF)
           ELSE IF token.kind # "RightParen"
                THEN ReturnAt(MismatchRightParen(token.start_index), pos + 1)
           ELSE ReturnAt(Ok(ret.node), pos + 1)

\* node.unwrap().evaluate() on the tree a successful parse returned.
Evaluate ==
    /\ status = "Ok"
    /\ value = NoValue
    /\ value' = Node_evaluate(result.node, overflow_checks)
    /\ UNCHANGED <<tokens, pos, stack, ret, status, result, overflow_checks, prev, numVars, treeVars>>

\* A second Parser::new(Lexer::from_source_code(source)) over the same source,
\* once the first tree has been evaluated.
Reparse ==
    /\ status = "Ok"
    /\ value # NoValue
    /\ prev = NoPrev
    /\ prev' = [result |-> result, value |-> value]
    /\ pos' = 0
    /\ stack' = <<>>
    /\ ret' = NoRet
    /\ status' = "new"
    /\ result' = NoRet
    /\ value' = NoValue
    /\ UNCHANGED <<tokens, overflow_checks, numVars, treeVars>>

Next ==
    \/ Parse
    \/ ParseExpr_Enter
    \/ ParseExpr_First
    \/ ParseExpr_Next
    \/ ParseTerm_Enter
    \/ ParseTerm_First
    \/ ParseTerm_Next
    \/ ParseFactor_Enter
    \/ ParseFactor_Operand
    \/ ParseAtomic_Enter
    \/ ParseAtomic_Paren
    \/ ParseParenExpr_Enter
    \/ ParseParenExpr_Inner
    \/ Evaluate
    \/ Reparse

Spec == Init /\ [][Next]_vars

\* ---------------------------------------------------------------------------
\* The parser over longer token streams that hold no parenthesis: integer
\* literals and the five operators.
\* ---------------------------------------------------------------------------
FoldKinds == {Lit("Int", 0), Lit("Int", 2)} \cup {Op(o) : o \in Operators}

\* Parser::new(lexer) over any such stream of at most MaxFoldLen tokens.
InitFold ==
    /\ \E n \in 0..MaxFoldLen : \E ks \in [1..n -> FoldKinds] :
            tokens = [i \in 1..n |-> Token(ks[i], i)]
    /\ pos = 0
    /\ stack = <<>>
    /\ ret = NoRet
    /\ status = "new"
    /\ result = NoRet
    /\ value = NoValue
    /\ overflow_checks \in BOOLEAN
    /\ prev = NoPrev
    /\ num_op = "none"
    /\ num_left = NoValue
    /\ num_right = NoValue
    /\ num_out = NoValue
    /\ tree = NoNode
    /\ lines = <<>>

\* The steps a parse of such a stream can take: parse_atomic never sees a
\* left parenthesis.
NextFold ==
    \/ Parse
    \/ ParseExpr_Enter
    \/ ParseExpr_First
    \/ ParseExpr_Next
    \/ ParseTerm_Enter
    \/ ParseTerm_First
    \/ ParseTerm_Next
    \/ ParseFactor_Enter
    \/ ParseFactor_Operand
    \/ ParseAtomic_Enter
    \/ Evaluate

SpecFold == InitFold /\ [][NextFold]_vars

\* ---------------------------------------------------------------------------
\* Number operations on their own: one BinaryAction::evaluate or
\* UnaryAction::evaluate call on operands drawn from NumSamples.
\* ---------------------------------------------------------------------------
\* Every i128 of the modelled width, and the floats -2.0 .. 2.0, NaN, +-inf.
NumSamples ==
    {NumInt(v) : v \in IntMin..IntMax}
        \cup {NumFlt(v, 1) : v \in -2..2}
        \cup {NaN, PosInf, NegInf}

InitNum ==
    /\ tokens = <<>>
    /\ pos = 0
    /\ stack = <<>>
    /\ ret = NoRet
    /\ status = "new"
    /\ result = NoRet
    /\ value = NoValue
    /\ overflow_checks \in BOOLEAN
    /\ prev = NoPrev
    /\ num_op = "none"
    /\ num_left = NoValue
    /\ num_right = NoValue
    /\ num_out = NoValue
    /\ tree = NoNode
    /\ lines = <<>>

\* BinaryAction::evaluate(actor, left, right)
EvalBinary(actor) ==
    /\ num_op = "none"
    /\ \E left \in NumSamples, right \in NumSamples :
          /\ num_op' = actor
          /\ num_left' = left
          /\ num_right' = right
          /\ num_out' = BinaryAction_evaluate(actor, left, right, overflow_checks)
    /\ UNCHANGED <<parserVars, overflow_checks, treeVars>>

Eval_Add == EvalBinary("Add")
Eval_Sub == EvalBinary("Sub")
Eval_Mul == EvalBinary("Mul")
Eval_Div == EvalBinary("Div")
Eval_Pow == EvalBinary("Pow")

\* UnaryAction::evaluate(actor, operand); num_right stays unset.
EvalUnary(actor) ==
    /\ num_op = "none"
    /\ \E operand \in NumSamples :
          /\ num_op' = actor
          /\ num_left' = operand
          /\ num_out' = UnaryAction_evaluate(actor, operand, overflow_checks)
    /\ UNCHANGED <<parserVars, overflow_checks, num_right, treeVars>>

Eval_Neg == EvalUnary("Neg")
Eval_Iden == EvalUnary("Iden")

NextNum ==
    \/ Eval_Add
    \/ Eval_Sub
    \/ Eval_Mul
    \/ Eval_Div
    \/ Eval_Pow
    \/ Eval_Neg
    \/ Eval_Iden

SpecNum == InitNum /\ [][NextNum]_vars

\* ---------------------------------------------------------------------------
\* Tree rendering (ast.rs): Display of Number and of the actions, and
\* Node::to_tree.  A line is a string; a rendering is a sequence of lines.
\* ---------------------------------------------------------------------------
\* The digits after the decimal point of r/d (0 <= r < d), at most k of them.
\* The expansion ends by itself for the dyadic rationals an f64 holds.
RECURSIVE FracDigits(_, _, _)
FracDigits(r, d, k) ==
    IF r = 0 \/ k = 0 THEN ""
    ELSE ToString((10 * r) \div d) \o FracDigits((10 * r) % d, d, k - 1)

\* `write!(f, "{}", n)` of an f64: no exponent, no trailing ".0".
F64_to_string(x) ==
    CASE x.c = "nan" -> "NaN"
      [] x.c = "inf" -> IF x.n > 0 THEN "inf" ELSE "-inf"
      [] OTHER ->
            LET a == Abs(x.n)
                frac == FracDigits(a % x.d, x.d, x.d)
            IN  (IF x.n < 0 THEN "-" ELSE "") \o ToString(a \div x.d)
                    \o (IF frac = "" THEN "" ELSE "." \o frac)

\* impl Display for Number
Number_to_string(x) ==
    IF x.t = "Flt" THEN F64_to_string(x) ELSE ToString(x.n)

\* impl Display for BinaryAction
BinaryAction_to_string(actor) ==
    "Op(" \o (CASE actor = "Add" -> "+"
                [] actor = "Sub" -> "-"
                [] actor = "Mul" -> "*"
                [] actor = "Div" -> "/"
                [] actor = "Pow" -> "^") \o ")"

\* impl Display for UnaryAction (Neg and Iden)
UnaryAction_to_string(actor) ==
    CASE actor = "Neg" -> "Op(-)"
      [] actor = "Iden" -> "Op(+)"

\* The three four-character prefixes of to_tree.  The first stands for the
\* source's grave accent, two hyphens and a space: a string of this language
\* cannot hold a grave accent, so an apostrophe takes its place.
Branch == "'-- "
Bar == "|   "
Blank == "    "

\* `t[0].insert_str(0, first); for line in t.iter_mut().skip(1)
\* { line.insert_str(0, rest) }`
InsertStr(t, first, rest) ==
    [i \in 1..Len(t) |-> IF i = 1 THEN first \o t[i] ELSE rest \o t[i]]

\* BinaryNode_to_tree that continues the right child's lines as it does the
\* left child's.
BinaryNode_to_tree_BarOnRight(actor, left_lines, right_lines) ==
    LET left_tree == InsertStr(left_lines, Branch, Bar)
        right_tree == InsertStr(right_lines, Branch, Bar)
    IN  <<BinaryAction_to_string(actor)>> \o left_tree \o right_tree

\* BinaryNode::to_tree, given what to_tree returned for its children.
BinaryNode_to_tree(actor, left_lines, right_lines) ==
    LET left_tree == InsertStr(left_lines, Branch, Bar)
        right_tree == InsertStr(right_lines, Branch, Blank)
    IN  <<BinaryAction_to_string(actor)>> \o left_tree \o right_tree

\* UnaryNode::to_tree, given what to_tree returned for its operand.
UnaryNode_to_tree(actor, operand_lines) ==
    LET left_tree == InsertStr(operand_lines, Branch, Bar)
    IN  <<UnaryAction_to_string(actor)>> \o left_tree

\* PlainNode::to_tree
PlainNode_to_tree(num) == <<Number_to_string(num)>>

\* Node::to_tree, dispatched on the node's type.
RECURSIVE Node_to_tree(_)
Node_to_tree(nd) ==
    CASE nd.node = "Plain" -> PlainNode_to_tree(nd.num)
      [] nd.node = "Unary" -> UnaryNode_to_tree(nd.actor, Node_to_tree(nd.operand))
      [] nd.node = "Binary" ->
            BinaryNode_to_tree(nd.actor, Node_to_tree(nd.left), Node_to_tree(nd.right))

\* The numbers at the leaves, and the actions, of the trees rendered below.
TreeLeaves == {NumInt(-2), NumFlt(5, 2)}
UnaryActions == {"Neg", "Iden"}
BinaryActions == {"Add", "Sub", "Mul", "Div", "Pow"}

\* Every tree of exactly n nodes built by PlainNode::new, UnaryNode::new and
\* BinaryNode::new.
RECURSIVE TreesOfSize(_)
TreesOfSize(n) ==
    IF n = 1 THEN {PlainNode(x) : x \in TreeLeaves}
    ELSE {UnaryNode(a, t) : a \in UnaryActions, t \in TreesOfSize(n - 1)}
            \cup UNION {{BinaryNode(l, a, r) : l \in TreesOfSize(k), a \in BinaryActions,
                                               r \in TreesOfSize(n - 1 - k)}
                        : k \in 1..(n - 2)}

InitTree ==
    /\ tokens = <<>>
    /\ pos = 0
    /\ stack = <<>>
    /\ ret = NoRet
    /\ status = "new"
    /\ result = NoRet
    /\ value = NoValue
    /\ overflow_checks \in BOOLEAN
    /\ prev = NoPrev
    /\ num_op = "none"
    /\ num_left = NoValue
    /\ num_right = NoValue
    /\ num_out = NoValue
    /\ \E n \in 1..MaxNodes : tree \in TreesOfSize(n)
    /\ lines = <<>>

\* tree.to_tree() on a tree of the given node type.
ToTree(type) ==
    /\ lines = <<>>
    /\ tree.node = type
    /\ lines' = Node_to_tree(tree)
    /\ UNCHANGED <<parserVars, overflow_checks, numVars, tree>>

ToTree_Plain == ToTree("Plain")
ToTree_Unary == ToTree("Unary")
ToTree_Binary == ToTree("Binary")

NextTree ==
    \/ ToTree_Plain
    \/ ToTree_Unary
    \/ ToTree_Binary

SpecTree == InitTree /\ [][NextTree]_vars

\* ---------------------------------------------------------------------------
\* Reference reading of the grammar
\*     expr := term (('+' | '-') term)*      term   := factor (('*' | '/') factor)*
\*     factor := ('+' | '-')? atomic         atomic := INT | FLOAT | '(' expr ')'
\* over a token sequence ts from index i: [ok, val, next], val by the arithmetic
\* of Number in the build oc, next the index after the phrase.
\* ---------------------------------------------------------------------------
RefFail == [ok |-> FALSE, val |-> NoValue, next |-> 0]
KindAt(ts, i) == IF i >= 1 /\ i <= Len(ts) THEN ts[i].kind ELSE "None"
OpAt(ts, i) == IF i >= 1 /\ i <= Len(ts) /\ ts[i].kind = "Op" THEN ts[i].op ELSE "none"

RECURSIVE RefExpr(_, _, _), RefExprRest(_, _, _, _), RefTerm(_, _, _),
          RefTermRest(_, _, _, _), RefFactor(_, _, _), RefAtomic(_, _, _)

RefAtomic(ts, i, oc) ==
    CASE KindAt(ts, i) = "Int" -> [ok |-> TRUE, val |-> NumInt(ts[i].v), next |-> i + 1]
      [] KindAt(ts, i) = "Flt" -> [ok |-> TRUE, val |-> NumFlt(ts[i].v, 1), next |-> i + 1]
      [] KindAt(ts, i) = "LeftParen" ->
            LET e == RefExpr(ts, i + 1, oc)
            IN  IF e.ok /\ KindAt(ts, e.next) = "RightParen"
                THEN [e EXCEPT !.next = e.next + 1]
                ELSE RefFail
      [] OTHER -> RefFail

RefFactor(ts, i, oc) ==
    IF OpAt(ts, i) \in {"Plus", "Minus"}
    THEN LET a == RefAtomic(ts, i + 1, oc)
         IN  IF ~a.ok THEN RefFail
             ELSE IF OpAt(ts, i) = "Minus" THEN [a EXCEPT !.val = Number_neg(a.val, oc)]
             ELSE a
    ELSE RefAtomic(ts, i, oc)

RefTermRest(ts, acc, i, oc) ==
    IF OpAt(ts, i) \in {"Star", "Slash"}
    THEN LET f == RefFactor(ts, i + 1, oc)
         IN  IF ~f.ok THEN RefFail
             ELSE RefTermRest(ts,
                              IF OpAt(ts, i) = "Star" THEN Number_mul(acc, f.val, oc)
                              ELSE Number_div(acc, f.val, oc),
                              f.next, oc)
    ELSE [ok |-> TRUE, val |-> acc, next |-> i]

RefTerm(ts, i, oc) ==
    LET f == RefFactor(ts, i, oc)
    IN  IF f.ok THEN RefTermRest(ts, f.val, f.next, oc) ELSE RefFail

RefExprRest(ts, acc, i, oc) ==
    IF OpAt(ts, i) \in {"Plus", "Minus"}
    THEN LET t == RefTerm(ts, i + 1, oc)
         IN  IF ~t.ok THEN RefFail
             ELSE RefExprRest(ts,
                              IF OpAt(ts, i) = "Plus" THEN Number_add(acc, t.val, oc)
                              ELSE Number_sub(acc, t.val, oc),
                              t.next, oc)
    ELSE [ok |-> TRUE, val |-> acc, next |-> i]

RefExpr(ts, i, oc) ==
    LET t == RefTerm(ts, i, oc)
    IN  IF t.ok THEN RefExprRest(ts, t.val, t.next, oc) ELSE RefFail

\* ts is, from its first to its last token, an expr of the grammar.
Derivable(ts) ==
    LET e == RefExpr(ts, 1, FALSE) IN e.ok /\ e.next = Len(ts) + 1
RefValue(ts, oc) == RefExpr(ts, 1, oc).val

Finished == status \in {"Ok", "Err", "panic"}
ParenFree(ts) == \A i \in 1..Len(ts) : ts[i].kind \notin {"LeftParen", "RightParen"}

IsLit(tok) == tok.kind \in {"Int", "Flt"}
IsPrefix(tok) == tok.kind = "Op" /\ tok.op \in {"Plus", "Minus"}
IsBinOp(tok) == tok.kind = "Op" /\ tok.op \in {"Plus", "Minus", "Star", "Slash"}
\* The leaf, the unary action and the binary action the grammar gives a token.
LitNum(tok) == IF tok.kind = "Int" THEN NumInt(tok.v) ELSE NumFlt(tok.v, 1)
PrefixAction(tok) == IF tok.op = "Plus" THEN "Iden" ELSE "Neg"
BinOpAction(tok) ==
    CASE tok.op = "Plus" -> "Add"
      [] tok.op = "Minus" -> "Sub"
      [] tok.op = "Star" -> "Mul"
      [] tok.op = "Slash" -> "Div"

\* ---------------------------------------------------------------------------
\* Claims.
\* ---------------------------------------------------------------------------

\* C1: every token sequence derivable from the grammar expr/term/factor/atomic
\* parses to Ok, and the tree evaluates to the value standard arithmetic gives
\* (precedence, left associativity, parenthesised sub-expressions as units).
C1_GrammarEvaluates ==
    (Finished /\ Derivable(tokens)) =>
        /\ status = "Ok"
        /\ value # NoValue => value = RefValue(tokens, overflow_checks)

\* C2: whenever Parser::parse returns Ok, every token of the stream has been
\* consumed: no token remains unread.
C2_OkConsumesAll ==
    status = "Ok" => pos = Len(tokens)

\* C3: a well-formed expression followed by a right parenthesis with no
\* matching left parenthesis gives MismatchRightParen with the offset of that
\* parenthesis; stated for the expressions without parentheses (as in 1 + 2 )).
C3_StrayRightParen ==
    LET n == Len(tokens) IN
    (/\ Finished
     /\ n >= 2
     /\ tokens[n].kind = "RightParen"
     /\ ParenFree(SubSeq(tokens, 1, n - 1))
     /\ Derivable(SubSeq(tokens, 1, n - 1)))
        => result = MismatchRightParen(tokens[n].start_index)

\* C4: a left parenthesis, a well-formed expression, then the end of the
\* stream gives the error UnexpectedEOF: not Ok, no other error, no panic.
C4_UnclosedLeftParen ==
    (/\ Finished
     /\ Len(tokens) >= 2
     /\ tokens[1].kind = "LeftParen"
     /\ Derivable(Tail(tokens)))
        => result = UnexpectedEOF

\* C5: a + or - at the start of a factor is consumed and gives a unary node
\* (Iden for +, Neg for -) over exactly the atomic that follows, so it binds
\* tighter than any binary operator: p a is Unary(p, a); a op p b is
\* Binary(a, op, Unary(p, b)) and evaluates to a op (p b); p a op b is
\* Binary(Unary(p, a), op, b); and an operator directly after the prefix is
\* refused as InvalidUnaryOperator, a second + or - included.
C5_UnaryPrefix ==
    LET n == Len(tokens)
        t(i) == tokens[i]
        leaf(i) == PlainNode(LitNum(t(i)))
        unary(i) == UnaryNode(PrefixAction(t(i)), leaf(i + 1))
        oc == overflow_checks
    IN  Finished =>
        /\ (n = 2 /\ IsPrefix(t(1)) /\ IsLit(t(2))) =>
                /\ result = Ok(unary(1))
                /\ pos = 2
        /\ (n = 4 /\ IsLit(t(1)) /\ IsBinOp(t(2)) /\ IsPrefix(t(3)) /\ IsLit(t(4))) =>
                /\ result = Ok(BinaryNode(leaf(1), BinOpAction(t(2)), unary(3)))
                /\ pos = 4
                /\ value # NoValue =>
                      value = BinaryAction_evaluate(BinOpAction(t(2)), LitNum(t(1)),
                                  UnaryAction_evaluate(PrefixAction(t(3)), LitNum(t(4)), oc), oc)
        /\ (n = 4 /\ IsPrefix(t(1)) /\ IsLit(t(2)) /\ IsBinOp(t(3)) /\ IsLit(t(4))) =>
                /\ result = Ok(BinaryNode(unary(1), BinOpAction(t(3)), leaf(4)))
                /\ pos = 4
        /\ (n >= 2 /\ IsPrefix(t(1)) /\ t(2).kind = "Op") =>
                /\ result = InvalidUnaryOperator(t(2))
                /\ pos = 2

\* C5 witness: 2 * - 2 has parsed to Binary(2, Mul, Unary(Neg, 2)) and
\* evaluated to Int(-4).
C5_Witness ==
    /\ status = "Ok"
    /\ Len(tokens) = 4
    /\ tokens[2].op = "Star"
    /\ tokens[3].op = "Minus"
    /\ result.node = BinaryNode(PlainNode(NumInt(2)), "Mul",
                                UnaryNode("Neg", PlainNode(NumInt(2))))
    /\ value = NumInt(-4)

\* C6: Number division by a divisor equal to Int(0) or Flt(0.0) returns
\* Flt(NaN) for every dividend; it never reaches the native integer division
\* and never fails.
C6_DivByZeroIsNaN ==
    (num_op = "Div" /\ num_right \in {NumInt(0), NumFlt(0, 1)}) => num_out = NaN

\* C6 witness: an integer has been divided by Int(0) and the result is NaN.
C6_Witness ==
    /\ num_op = "Div"
    /\ IsInt(num_left)
    /\ num_left.n # 0
    /\ num_right = NumInt(0)
    /\ num_out = NaN

\* C7: add, subtract, multiply, divide, negate and power return a numeric
\* value and never fail or panic, the limits of the integer width included;
\* stated for the build whose integer arithmetic wraps, as the claim has it.
C7_ArithmeticTotal ==
    (num_op # "none" /\ ~overflow_checks) => ~IsPanic(num_out)

\* C8: parsing the identical token sequence of a valid expression twice yields
\* two trees whose evaluate() results are equal under Number == Number,
\* expressions containing a division included.
C8_ReparseEqual ==
    (Derivable(tokens) /\ prev # NoPrev /\ value # NoValue)
        => Number_eq(prev.value, value)

\* C8, amended: the second parse returns the identical tree and evaluate()
\* the identical value, and the two values are equal under Number == Number
\* exactly when the value is finite (an Int or a finite Flt): a NaN, as from a
\* division by zero, or an infinity is not equal to itself.
C8_ReparseDeterministic ==
    (prev # NoPrev /\ Finished) =>
        /\ result = prev.result
        /\ value # NoValue =>
              /\ value = prev.value
              /\ ~IsPanic(value) => (Number_eq(prev.value, value) <=> IsFinite(value))

\* C8 witness: 2 / 2.0 has been parsed and evaluated twice to Flt(1.0).
C8_Witness ==
    /\ prev # NoPrev
    /\ value = NumFlt(1, 1)
    /\ prev.value = value
    /\ result.node.node = "Binary"
    /\ result.node.actor = "Div"

\* n * n * ... * n, m factors, wrapping at the integer width.
RECURSIVE WrappingPower(_, _)
WrappingPower(n, m) == IF m = 0 THEN 1 ELSE Wrap(n * WrappingPower(n, m - 1))

\* C9: Pow on an integer base n and an integer exponent m gives, for every
\* m >= 0 of the integer type, Int(n^m) under the width's overflow behaviour,
\* and for every m < 0 a Flt; stated for the build whose arithmetic wraps.
C9_IntegerPower ==
    (num_op = "Pow" /\ IsInt(num_left) /\ IsInt(num_right) /\ ~overflow_checks) =>
        IF num_right.n >= 0
        THEN num_out = NumInt(WrappingPower(num_left.n, num_right.n))
        ELSE IsFlt(num_out)

\* The index of the first operator token standing where an atomic is required
\* in a stream that is, up to there, literals joined by binary operators with
\* optional + or - prefixes; 0 if there is none.  slot is "factor" at the start
\* and after a binary operator, "atomic" after a prefix, "operator" after a
\* literal.
RECURSIVE OperatorInAtomicSlot(_, _, _)
OperatorInAtomicSlot(ts, i, slot) ==
    IF i > Len(ts) THEN 0
    ELSE CASE slot = "factor" /\ IsPrefix(ts[i]) -> OperatorInAtomicSlot(ts, i + 1, "atomic")
           [] slot \in {"factor", "atomic"} /\ ts[i].kind = "Op" /\ ~(slot = "factor" /\ IsPrefix(ts[i])) -> i
           [] slot \in {"factor", "atomic"} /\ IsLit(ts[i]) -> OperatorInAtomicSlot(ts, i + 1, "operator")
           [] slot = "operator" /\ IsBinOp(ts[i]) -> OperatorInAtomicSlot(ts, i + 1, "factor")
           [] OTHER -> 0

\* C10: an operator token standing where an atomic is required (at the start
\* of the input, after a binary operator, after a unary prefix), other than a
\* + or - at the start of a factor, makes Parser::parse return
\* InvalidUnaryOperator carrying exactly that token, with no token after it
\* consumed; and every InvalidUnaryOperator, in whatever context, carries the
\* operator token that was consumed last, which is a + or - only directly
\* after a + or - prefix.
C10_InvalidUnaryOperator ==
    LET k == OperatorInAtomicSlot(tokens, 1, "factor")
    IN  /\ (Finished /\ k # 0) =>
              /\ result = InvalidUnaryOperator(tokens[k])
              /\ pos = k
        /\ ret.err = "InvalidUnaryOperator" =>
              /\ pos >= 1
              /\ ret.tok = tokens[pos]
              /\ ret.tok.kind = "Op"
              /\ IsPrefix(ret.tok) => (pos >= 2 /\ IsPrefix(tokens[pos - 1]))
              /\ Finished => result = ret

\* C10 witness: 2 + * ... has been refused with the * at offset 2.
C10_Witness ==
    /\ status = "Err"
    /\ Len(tokens) = 4
    /\ IsLit(tokens[1])
    /\ tokens[2].op = "Plus"
    /\ tokens[3].op = "Star"
    /\ result = InvalidUnaryOperator(tokens[3])
    /\ pos = 3

\* ---------------------------------------------------------------------------
\* Reference reading of a rendering: the nodes in pre-order, one line each,
\* every line indented by what its ancestors contribute.
\* ---------------------------------------------------------------------------
RECURSIVE NodeCount(_)
NodeCount(nd) ==
    CASE nd.node = "Plain" -> 1
      [] nd.node = "Unary" -> 1 + NodeCount(nd.operand)
      [] nd.node = "Binary" -> 1 + NodeCount(nd.left) + NodeCount(nd.right)

NodeLabel(nd) ==
    CASE nd.node = "Plain" -> Number_to_string(nd.num)
      [] nd.node = "Unary" -> UnaryAction_to_string(nd.actor)
      [] nd.node = "Binary" -> BinaryAction_to_string(nd.actor)

\* The lines of nd in pre-order when the line of nd itself is indented by
\* `first` and the lines of its descendants by `rest` and their own markers.
RECURSIVE PreOrderLines(_, _, _)
PreOrderLines(nd, first, rest) ==
    CASE nd.node = "Plain" -> <<first \o NodeLabel(nd)>>
      [] nd.node = "Unary" ->
            <<first \o NodeLabel(nd)>>
                \o PreOrderLines(nd.operand, rest \o Branch, rest \o Bar)
      [] nd.node = "Binary" ->
            <<first \o NodeLabel(nd)>>
                \o PreOrderLines(nd.left, rest \o Branch, rest \o Bar)
                \o PreOrderLines(nd.right, rest \o Branch, rest \o Blank)

\* C11: to_tree returns exactly one line per node, in pre-order (the node's
\* label, then its left subtree, then its right subtree), each line indented
\* by its ancestors; for a binary node the first line is the operator label,
\* each child's first line carries the branch marker, every later line of the
\* left child's rendering carries the bar prefix and every later line of the
\* right child's rendering four spaces; and a binary node over two plain
\* leaves renders as exactly three lines: the label, the marker and the left
\* value, the marker and the right value.
C11_ToTreePreOrder ==
    lines # <<>> =>
        /\ Len(lines) = NodeCount(tree)
        /\ lines = PreOrderLines(tree, "", "")
        /\ tree.node = "Binary" =>
              LET l == Node_to_tree(tree.left)
                  r == Node_to_tree(tree.right)
              IN  /\ Len(lines) = 1 + Len(l) + Len(r)
                  /\ lines[1] = BinaryAction_to_string(tree.actor)
                  /\ lines[2] = Branch \o l[1]
                  /\ \A j \in 2..Len(l) : lines[1 + j] = Bar \o l[j]
                  /\ lines[2 + Len(l)] = Branch \o r[1]
                  /\ \A j \in 2..Len(r) : lines[1 + Len(l) + j] = Blank \o r[j]
        /\ (tree.node = "Binary" /\ tree.left.node = "Plain" /\ tree.right.node = "Plain") =>
              lines = <<BinaryAction_to_string(tree.actor),
                        Branch \o Number_to_string(tree.left.num),
                        Branch \o Number_to_string(tree.right.num)>>

\* C11 witness: (-2 + 2.5) * -(-2) built by hand has been rendered, both
\* children of the root taking more than one line.
C11_Witness ==
    /\ tree = BinaryNode(BinaryNode(PlainNode(NumInt(-2)), "Add", PlainNode(NumFlt(5, 2))),
                         "Mul",
                         UnaryNode("Neg", PlainNode(NumInt(-2))))
    /\ lines = <<"Op(*)",
                 "'-- Op(+)",
                 "|   '-- -2",
                 "|   '-- 2.5",
                 "'-- Op(-)",
                 "    '-- -2">>

\* ---------------------------------------------------------------------------
\* Reference reading of a left fold: the shape of the tree and the tokens
\* it spells, for operands that hold no parenthesis.
\* ---------------------------------------------------------------------------
\* The token a tree's number or action was read from, without its span.
LitOf(num) == Lit(IF num.t = "Int" THEN "Int" ELSE "Flt", num.n)
OperatorOf(actor) ==
    CASE actor \in {"Add", "Iden"} -> "Plus"
      [] actor \in {"Sub", "Neg"} -> "Minus"
      [] actor = "Mul" -> "Star"
      [] actor = "Div" -> "Slash"
      [] actor = "Pow" -> "Caret"

\* The tokens of a tree from left to right.
RECURSIVE InOrder(_)
InOrder(nd) ==
    CASE nd.node = "Plain" -> <<LitOf(nd.num)>>
      [] nd.node = "Unary" -> <<Op(OperatorOf(nd.actor))>> \o InOrder(nd.operand)
      [] nd.node = "Binary" ->
            InOrder(nd.left) \o <<Op(OperatorOf(nd.actor))>> \o InOrder(nd.right)

\* The first p tokens of the stream, without their spans.
Consumed(p) == [i \in 1..p |-> [kind |-> tokens[i].kind, op |-> tokens[i].op,
                                 v |-> tokens[i].v]]

\* A factor: a literal, with or without one prefix.
IsFactorTree(nd) ==
    \/ nd.node = "Plain"
    \/ nd.node = "Unary" /\ nd.operand.node = "Plain"

\* x1 op1 x2 ... xn folded to the left, every right child one factor.
RECURSIVE IsTermFold(_)
IsTermFold(nd) ==
    \/ IsFactorTree(nd)
    \/ /\ nd.node = "Binary"
       /\ nd.actor \in {"Mul", "Div"}
       /\ IsFactorTree(nd.right)
       /\ IsTermFold(nd.left)

\* x1 op1 x2 ... xn folded to the left, every right child one term.
RECURSIVE IsExprFold(_)
IsExprFold(nd) ==
    \/ IsTermFold(nd)
    \/ /\ nd.node = "Binary"
       /\ nd.actor \in {"Add", "Sub"}
       /\ IsTermFold(nd.right)
       /\ IsExprFold(nd.left)

\* The frame that called the running one.
Caller == stack[Len(stack) - 1]

\* C12: parse_expr and parse_term are left folds.  Over token streams without
\* parentheses: a successful parse returns the left-leaning tree of the tokens
\* it consumed, in their order, the right child of every + or - node being
\* one term and of every * or / node one factor; the operand parsed in a turn
\* of a loop starts right after the operator that turn peeked, that operator
\* consumed; a loop returns with the peeked token unconsumed when it is not
\* an operator of its level; and a op1 b op2 c with both operators of one
\* level is parsed as (a op1 b) op2 c and evaluates to that.
C12_LeftFold ==
    /\ status = "Ok" =>
          /\ InOrder(result.node) = Consumed(pos)
          /\ IsExprFold(result.node)
          /\ ~IsBinOp(Peek)
    /\ (Running("parse_term", "enter") /\ Len(stack) >= 2 /\ Caller.pc = "next") =>
          /\ Caller.fn = "parse_expr"
          /\ pos >= 1
          /\ tokens[pos].kind = "Op"
          /\ ExprActor(tokens[pos].op) = Caller.actor
          /\ Caller.actor # "none"
    /\ (Running("parse_factor", "enter") /\ Len(stack) >= 2 /\ Caller.pc = "next") =>
          /\ Caller.fn = "parse_term"
          /\ pos >= 1
          /\ tokens[pos].kind = "Op"
          /\ TermActor(tokens[pos].op) = Caller.actor
          /\ Caller.actor # "none"
    /\ ((Returned("parse_expr", "first") \/ Returned("parse_expr", "next"))
            /\ ret.kind = "Ok") =>
          ~(Peek.kind = "Op" /\ TermActor(Peek.op) # "none")
    /\ (Len(tokens) = 5 /\ IsLit(tokens[1]) /\ IsLit(tokens[3]) /\ IsLit(tokens[5])
            /\ \/ ExprActor(tokens[2].op) # "none" /\ ExprActor(tokens[4].op) # "none"
               \/ TermActor(tokens[2].op) # "none" /\ TermActor(tokens[4].op) # "none"
            /\ Finished) =>
          LET a == LitNum(tokens[1])
              b == LitNum(tokens[3])
              c == LitNum(tokens[5])
              op1 == BinOpAction(tokens[2])
              op2 == BinOpAction(tokens[4])
          IN  /\ status = "Ok"
              /\ pos = 5
              /\ result.node = BinaryNode(BinaryNode(PlainNode(a), op1, PlainNode(b)),
                                          op2, PlainNode(c))
              /\ value # NoValue =>
                    value = BinaryAction_evaluate(op2,
                                BinaryAction_evaluate(op1, a, b, overflow_checks),
                                c, overflow_checks)

\* C12 witness: 2 - 0 - 2 has been parsed as (2 - 0) - 2 and evaluated to 0,
\* not to the 4 of 2 - (0 - 2).
C12_Witness ==
    /\ Consumed(Len(tokens)) = <<Lit("Int", 2), Op("Minus"), Lit("Int", 0), Op("Minus"),
                                 Lit("Int", 2)>>
    /\ status = "Ok"
    /\ pos = 5
    /\ result.node = BinaryNode(BinaryNode(PlainNode(NumInt(2)), "Sub", PlainNode(NumInt(0))),
                                "Sub", PlainNode(NumInt(2)))
    /\ value = NumInt(0)

\* C13: the unreachable!() branch of parse_paren_expr is never executed, the
\* token parse_paren_expr takes first being always a left parenthesis: no
\* parse ends in that panic.  Stated for the token stream ( literal ).
C13_UnreachableNeverRuns ==
    (/\ Len(tokens) = 3
     /\ tokens[1].kind = "LeftParen"
     /\ IsLit(tokens[2])
     /\ tokens[3].kind = "RightParen") =>
        status # "panic"

TypeOK ==
    /\ pos \in 0..Len(tokens)
    /\ status \in {"new", "parsing", "Ok", "Err", "panic"}
====
